---- MODULE Spec2Model ----
(***************************************************************************)
(* Model of the two text transforms of the Jira MCP server                 *)
(* (src/src/handlers.ts): convertToADF (plain text -> ADF document) and    *)
(* convertADFToMarkdown (ADF document -> Markdown), of the field-set       *)
(* resolver getJiraFields, and of the handler of tool calls with its       *)
(* argument validation and its calls of the tracker (SpecTools).           *)
(*                                                                         *)
(* A JavaScript string is a sequence of one-character strings, so that     *)
(* trim, split, startsWith, the regular expression and the template        *)
(* strings are computed character by character.  A JavaScript object is a  *)
(* record holding exactly the properties that are present; null, arrays    *)
(* and primitive values carry a "js" tag.  A TypeError thrown by the code  *)
(* is the value Raise.                                                     *)
(***************************************************************************)
EXTENDS Integers, Sequences, FiniteSets, TLC

VARIABLES pc, text, lines, i, content, currentList, currentListType, doc, adf, md,
          mapped, fieldSet, fields, first, ncalls,
          request, updateFields, tracker, response

vars == <<pc, text, lines, i, content, currentList, currentListType, doc, adf, md,
          mapped, fieldSet, fields, first, ncalls,
          request, updateFields, tracker, response>>

encVars == <<text, lines, i, content, currentList, currentListType, doc>>

\* The argument and the result of getJiraFields
fldVars == <<fieldSet, fields>>

\* What the caller has seen so far: the first completed call of a transform
\* and the number of completed calls
histVars == <<first, ncalls>>

\* The tool-call handler: the request it was given, the fields jira_update_issue
\* has collected, the calls the tracker has received, and the response
toolVars == <<request, updateFields, tracker, response>>

(***************************************************************************)
(* Bounds of the model.                                                    *)
(***************************************************************************)
MaxLines == 3

(***************************************************************************)
(* Strings.                                                                *)
(***************************************************************************)
NL == "\n"

CR == "\r"

\* The backquote character, which a TLA+ string cannot hold.
BQ == "bq"

Digits == {"0", "1", "2", "3", "4", "5", "6", "7", "8", "9"}

\* The characters String.prototype.trim strips (white space and line terminators).
IsWhite(c) == c \in {" ", "\t", NL, CR}

\* The characters the regular expression's dot does not match.
IsLineTerminator(c) == c \in {NL, CR}

SetMin(S) == CHOOSE x \in S : \A y \in S : x <= y

RECURSIVE TrimStart(_)
TrimStart(s) == IF Len(s) > 0 /\ IsWhite(s[1]) THEN TrimStart(Tail(s)) ELSE s

RECURSIVE TrimEnd(_)
TrimEnd(s) ==
  IF Len(s) > 0 /\ IsWhite(s[Len(s)]) THEN TrimEnd(SubSeq(s, 1, Len(s) - 1)) ELSE s

\* String.prototype.trim
Trim(s) == TrimEnd(TrimStart(s))

\* String.prototype.split(sep) for a one-character separator
SplitOn(s, sep) ==
  LET P == {k \in 1..Len(s) : s[k] = sep}
      n == Cardinality(P)
      nth(j) == CHOOSE p \in P : Cardinality({q \in P : q < p}) = j - 1
      from(j) == IF j = 1 THEN 1 ELSE nth(j - 1) + 1
      upto(j) == IF j = n + 1 THEN Len(s) ELSE nth(j) - 1
  IN  [j \in 1..(n + 1) |-> SubSeq(s, from(j), upto(j))]

RECURSIVE Join(_, _)
\* Array.prototype.join(sep) on an array of strings
Join(parts, sep) ==
  IF Len(parts) = 0 THEN <<>>
  ELSE IF Len(parts) = 1 THEN parts[1]
  ELSE parts[1] \o sep \o Join(Tail(parts), sep)

RECURSIVE ReplaceChar(_, _, _)
\* String.prototype.replace(/c/g, by)
ReplaceChar(s, c, by) ==
  IF Len(s) = 0 THEN <<>>
  ELSE (IF Head(s) = c THEN by ELSE <<Head(s)>>) \o ReplaceChar(Tail(s), c, by)

StartsWith(s, p) == Len(s) >= Len(p) /\ SubSeq(s, 1, Len(p)) = p

EndsWith(s, c) == Len(s) > 0 /\ s[Len(s)] = c

RECURSIVE NatToString(_)
\* Number to decimal string, as a template literal does
NatToString(n) ==
  LET d == <<"0", "1", "2", "3", "4", "5", "6", "7", "8", "9">>
  IN  IF n < 10 THEN <<d[n + 1]>> ELSE NatToString(n \div 10) \o <<d[(n % 10) + 1]>>

RepeatN(c, n) == [k \in 1..n |-> c]

(***************************************************************************)
(* convertToADF                                                            *)
(***************************************************************************)
\* line.trim().startsWith("- ")
IsBulletLine(line) == StartsWith(Trim(line), <<"-", " ">>)

\* line.trim().substring(2)
BulletItem(line) == SubSeq(Trim(line), 3, Len(Trim(line)))

\* line.trim().match(/^(\d+)\. (.*)/): the match and its second group.
\* The dot stops at a line terminator and the pattern has no end anchor.
NumberedMatch(line) ==
  LET s == Trim(line)
      nondigit == {k \in 1..Len(s) : s[k] \notin Digits}
      d == IF nondigit = {} THEN Len(s) ELSE SetMin(nondigit) - 1
      ok == d >= 1 /\ Len(s) >= d + 2 /\ s[d + 1] = "." /\ s[d + 2] = " "
      rest == SubSeq(s, d + 3, Len(s))
      stop == {k \in 1..Len(rest) : IsLineTerminator(rest[k])}
      grp == IF stop = {} THEN rest ELSE SubSeq(rest, 1, SetMin(stop) - 1)
  IN  [matched |-> ok, item |-> IF ok THEN grp ELSE <<>>]

\* const nextLine = lines[i + 1] || ""   (i is the code's 0-based index)
NextLineOf(ls, k) == IF k + 2 <= Len(ls) THEN ls[k + 2] ELSE <<>>

HeadingMaxLen == 50

\* The heading test with the length bound off by one.
IsHeadingLine_Inclusive(ls, k) ==
  LET t == Trim(ls[k + 1])
  IN  /\ Len(t) > 0
      /\ (Trim(NextLineOf(ls, k)) = <<>> \/ k = Len(ls) - 1)
      /\ ~EndsWith(t, ".")
      /\ ~EndsWith(t, "?")
      /\ ~EndsWith(t, "!")
      /\ Len(t) <= HeadingMaxLen

\* The heading test of the fourth rule (lines 813-820).
IsHeadingLine(ls, k) ==
  LET t == Trim(ls[k + 1])
  IN  /\ Len(t) > 0
      /\ (Trim(NextLineOf(ls, k)) = <<>> \/ k = Len(ls) - 1)
      /\ ~EndsWith(t, ".")
      /\ ~EndsWith(t, "?")
      /\ ~EndsWith(t, "!")
      /\ Len(t) < HeadingMaxLen

TextNode(s) == [type |-> "text", text |-> s]

\* The list item without its paragraph wrapper.
ListItemNode_NoParagraph(s) == [type |-> "listItem", content |-> <<TextNode(s)>>]

ListItemNode(s) ==
  [type |-> "listItem",
   content |-> << [type |-> "paragraph", content |-> <<TextNode(s)>>] >>]

HeadingNode(s) ==
  [type |-> "heading", attrs |-> [level |-> 2], content |-> <<TextNode(s)>>]

ParagraphNode(s) == [type |-> "paragraph", content |-> <<TextNode(s)>>]

NewList(t) == [type |-> t, content |-> <<>>]

\* currentList.content.push(item): currentList refers to content[currentList]
PushItem(c, idx, item) ==
  [c EXCEPT ![idx] = [@ EXCEPT !.content = Append(@, item)]]

(***************************************************************************)
(* convertADFToMarkdown                                                    *)
(***************************************************************************)
\* What a thrown TypeError or RangeError is modelled as: no string of the
\* program holds this element.
Raise == <<"throw">>

Null == [js |-> "null"]

\* A value that is an object and not an array (a node, a mark, attrs).
IsObject(v) == "js" \notin DOMAIN v

IsArray(v) == "js" \in DOMAIN v /\ v.js = "array"

Has(v, f) == IsObject(v) /\ f \in DOMAIN v

\* The content property: an array ("content"), a truthy value that is not an
\* array ("contentOther"), or absent, null or otherwise falsy.
ContentKind(n) ==
  IF Has(n, "content") THEN "array"
  ELSE IF Has(n, "contentOther") THEN "other"
  ELSE "absent"

\* parts.join(sep), where computing a part may have thrown
JoinR(parts, sep) ==
  IF \E k \in 1..Len(parts) : parts[k] = Raise THEN Raise ELSE Join(parts, sep)

\* a + b, where computing either may have thrown
Cat(a, b) == IF a = Raise \/ b = Raise THEN Raise ELSE a \o b

\* One iteration of the marks loop (lines 897-915); mark.type on null throws.
WrapMark(t, mark) ==
  IF t = Raise \/ ~IsObject(mark) THEN Raise
  ELSE IF ~Has(mark, "type") THEN t
  ELSE CASE mark.type = "strong" -> <<"*", "*">> \o t \o <<"*", "*">>
         [] mark.type = "em" -> <<"*">> \o t \o <<"*">>
         [] mark.type = "code" -> <<BQ>> \o t \o <<BQ>>
         [] mark.type = "strike" -> <<"~", "~">> \o t \o <<"~", "~">>
         [] mark.type = "link" ->
              <<"[">> \o t \o <<"]", "(">>
                \o (IF Has(mark, "attrs") /\ Has(mark.attrs, "href") THEN mark.attrs.href ELSE <<>>)
                \o <<")">>
         [] OTHER -> t

RECURSIVE ApplyMarks_Reversed(_, _)
\* The marks applied last to first.
ApplyMarks_Reversed(t, marks) ==
  IF Len(marks) = 0 THEN t ELSE WrapMark(ApplyMarks_Reversed(t, Tail(marks)), Head(marks))

RECURSIVE ApplyMarks(_, _)
\* for (const mark of node.marks) ...
ApplyMarks(t, marks) ==
  IF Len(marks) = 0 THEN t ELSE ApplyMarks(WrapMark(t, Head(marks)), Tail(marks))

\* lines 893-918
RenderText(node) ==
  LET t == IF Has(node, "text") THEN node.text ELSE <<>>
  IN  IF Has(node, "marks") THEN ApplyMarks(t, node.marks) ELSE t

\* The level with 2, the level convertToADF writes, for the default.
HeadingLevel_DefaultTwo(node) ==
  IF Has(node, "attrs") /\ Has(node.attrs, "level") /\ node.attrs.level # 0
  THEN node.attrs.level ELSE 2

\* node.attrs?.level || 1
HeadingLevel(node) ==
  IF Has(node, "attrs") /\ Has(node.attrs, "level") /\ node.attrs.level # 0
  THEN node.attrs.level ELSE 1

\* '#'.repeat(level): a RangeError on a negative count
HeadingMarker(level) == IF level < 0 THEN Raise ELSE RepeatN("#", level)

\* node.attrs?.name || ''
AttrOr(node, name) ==
  IF Has(node, "attrs") /\ Has(node.attrs, name) THEN node.attrs[name] ELSE <<>>

\* quoteContent.split('\n').map(line => '> ' + line).join('\n')
QuoteLines(q) ==
  IF q = Raise THEN Raise
  ELSE LET ls == SplitOn(q, NL)
       IN  Join([k \in 1..Len(ls) |-> <<">", " ">> \o ls[k]], <<NL>>)

\* prefix + content.replace(/\n/g, '\n  ')   (lines 1029-1032)
ListItemText(content_, listType, index) ==
  IF content_ = Raise THEN Raise
  ELSE (IF listType = "bullet" THEN <<"-", " ">> ELSE NatToString(index) \o <<".", " ">>)
         \o ReplaceChar(content_, NL, <<NL, " ", " ">>)

\* '| ' + row.join(' | ') + ' |'
TableLine(cells) == <<"|", " ">> \o Join(cells, <<" ", "|", " ">>) \o <<" ", "|">>

\* The table with one separator cell per row instead of per header cell.
MarkdownTable_SeparatorPerRow(tableRows) ==
  LET headerRow == tableRows[1]
      separator == [k \in 1..Len(tableRows) |-> <<"-", "-", "-">>]
      bodyRows == Tail(tableRows)
      markdownRows == <<TableLine(headerRow), TableLine(separator)>>
                        \o [k \in 1..Len(bodyRows) |-> TableLine(bodyRows[k])]
  IN  Join(markdownRows, <<NL>>)

\* lines 1006-1017: the Markdown table of the rendered rows
MarkdownTable(tableRows) ==
  LET headerRow == tableRows[1]
      separator == [k \in 1..Len(headerRow) |-> <<"-", "-", "-">>]
      bodyRows == Tail(tableRows)
      markdownRows == <<TableLine(headerRow), TableLine(separator)>>
                        \o [k \in 1..Len(bodyRows) |-> TableLine(bodyRows[k])]
  IN  Join(markdownRows, <<NL>>)

\* cellContent.replace(/\|/g, '\\|')
EscapePipes(c) == IF c = Raise THEN Raise ELSE ReplaceChar(c, "|", <<"\\", "|">>)

RECURSIVE processNode(_)
RECURSIVE Children(_, _)
RECURSIVE processListItem(_, _, _)
RECURSIVE processTable(_)
RECURSIVE TableRows(_)

\* node.content ? node.content.map(n => processNode(n)).join(sep) : ''
Children(node, sep) ==
  CASE ContentKind(node) = "absent" -> <<>>
    [] ContentKind(node) = "other" -> Raise
    [] OTHER -> JoinR([k \in 1..Len(node.content) |-> processNode(node.content[k])], sep)

\* lines 1027-1033; node.content on null throws
processListItem(node, listType, index) ==
  IF node = Null THEN Raise
  ELSE ListItemText(Children(node, <<>>), listType, index)

\* The rows with every row counted, one without cells standing for a row
\* whose content is missing or is not an array.
RECURSIVE TableRows_KeepMalformed(_)
TableRows_KeepMalformed(rows) ==
  IF Len(rows) = 0 THEN [threw |-> FALSE, rows |-> <<>>]
  ELSE LET row == Head(rows)
           more == TableRows_KeepMalformed(Tail(rows))
           cells == [k \in 1..Len(row.content) |->
                      IF row.content[k] = Null THEN Raise
                      ELSE EscapePipes(Children(row.content[k], <<>>))]
       IN  IF row = Null THEN [threw |-> TRUE, rows |-> <<>>]
           ELSE IF ContentKind(row) # "array"
                THEN [threw |-> more.threw, rows |-> <<(<<>>)>> \o more.rows]
           ELSE IF \E k \in 1..Len(cells) : cells[k] = Raise
                THEN [threw |-> TRUE, rows |-> <<>>]
           ELSE [threw |-> more.threw, rows |-> <<cells>> \o more.rows]

\* lines 986-1000: the rendered cells of every row that has an array content;
\* threw when a row or a cell is null or a cell's content cannot be mapped
TableRows(rows) ==
  IF Len(rows) = 0 THEN [threw |-> FALSE, rows |-> <<>>]
  ELSE LET row == Head(rows)
           more == TableRows(Tail(rows))
           cells == [k \in 1..Len(row.content) |->
                      IF row.content[k] = Null THEN Raise
                      ELSE EscapePipes(Children(row.content[k], <<>>))]
       IN  IF row = Null THEN [threw |-> TRUE, rows |-> <<>>]
           ELSE IF ContentKind(row) # "array" THEN more
           ELSE IF \E k \in 1..Len(cells) : cells[k] = Raise
                THEN [threw |-> TRUE, rows |-> <<>>]
           ELSE [threw |-> more.threw, rows |-> <<cells>> \o more.rows]

\* lines 973-1018
processTable(node) ==
  IF ContentKind(node) # "array" THEN <<>>
  ELSE IF Len(node.content) = 0 THEN <<>>
  ELSE LET tableRows == TableRows(node.content)
       IN  IF tableRows.threw THEN Raise
           ELSE IF Len(tableRows.rows) = 0 THEN <<>>
           ELSE MarkdownTable(tableRows.rows)

\* The quote of the children joined by a single newline.
Blockquote_SingleNewline(node) == QuoteLines(Children(node, <<NL>>))

\* lines 942-945
Blockquote(node) == QuoteLines(Children(node, <<NL, NL>>))

\* The default branch with a space between the children.
UnknownNode_Spaced(node) == Children(node, <<" ">>)

\* lines 962-964, the default branch
UnknownNode(node) == Children(node, <<>>)

\* lines 880-966
processNode(node) ==
  IF ~Has(node, "type") \/ node.type = "" THEN <<>>
  ELSE CASE node.type = "doc" -> Children(node, <<NL, NL>>)
         [] node.type = "paragraph" -> Children(node, <<>>)
         [] node.type = "text" -> RenderText(node)
         [] node.type = "heading" ->
              Cat(Cat(HeadingMarker(HeadingLevel(node)), <<" ">>), Children(node, <<>>))
         [] node.type = "bulletList" ->
              IF ContentKind(node) = "absent" THEN <<>>
              ELSE IF ContentKind(node) = "other" THEN Raise
              ELSE JoinR([k \in 1..Len(node.content) |->
                           processListItem(node.content[k], "bullet", 0)], <<NL>>)
         [] node.type = "orderedList" ->
              IF ContentKind(node) = "absent" THEN <<>>
              ELSE IF ContentKind(node) = "other" THEN Raise
              ELSE JoinR([k \in 1..Len(node.content) |->
                           processListItem(node.content[k], "ordered", k)], <<NL>>)
         [] node.type = "listItem" -> Children(node, <<NL>>)
         [] node.type = "codeBlock" ->
              Cat(<<BQ, BQ, BQ>> \o AttrOr(node, "language") \o <<NL>>,
                  Cat(Children(node, <<NL>>), <<NL, BQ, BQ, BQ>>))
         [] node.type = "blockquote" -> Blockquote(node)
         [] node.type = "rule" -> <<"-", "-", "-">>
         [] node.type = "table" -> processTable(node)
         [] node.type = "image" ->
              <<"!", "[">> \o AttrOr(node, "alt") \o <<"]", "(">> \o AttrOr(node, "src") \o <<")">>
         [] node.type = "hardBreak" -> <<NL>>
         [] OTHER -> UnknownNode(node)

\* The entry point taking its argument for the content sequence, whatever it is.
convertADFToMarkdown_ArgumentOnly(v) ==
  IF ~IsArray(v) THEN <<>>
  ELSE LET r == JoinR([k \in 1..Len(v.items) |-> processNode(v.items[k])], <<NL, NL>>)
       IN  IF r = Raise THEN Raise ELSE Trim(r)

\* The entry point returning the join as it is.
convertADFToMarkdown_NoTrim(v) ==
  IF ~(IsObject(v) \/ IsArray(v)) THEN <<>>
  ELSE IF ~IsArray(v) /\ ContentKind(v) # "array" THEN <<>>
  ELSE LET items == IF IsArray(v) THEN v.items ELSE v.content
       IN  JoinR([k \in 1..Len(items) |-> processNode(items[k])], <<NL, NL>>)

\* lines 860-873
convertADFToMarkdown(v) ==
  IF ~(IsObject(v) \/ IsArray(v)) THEN <<>>
  ELSE IF ~IsArray(v) /\ ContentKind(v) # "array" THEN <<>>
  ELSE LET items == IF IsArray(v) THEN v.items ELSE v.content
           r == JoinR([k \in 1..Len(items) |-> processNode(items[k])], <<NL, NL>>)
       IN  IF r = Raise THEN Raise ELSE Trim(r)

\* line 872: content.map(node => processNode(node)), the array the join is
\* taken of; none when the call returns before it
MappedNodes(v) ==
  IF ~(IsObject(v) \/ IsArray(v)) THEN <<>>
  ELSE IF ~IsArray(v) /\ ContentKind(v) # "array" THEN <<>>
  ELSE LET items == IF IsArray(v) THEN v.items ELSE v.content
       IN  [k \in 1..Len(items) |-> processNode(items[k])]

\* The blank test without the trim.
IsBlankLine_NoTrim(line) == line = <<>>

\* line.trim() === ""
IsBlankLine(line) == Trim(line) = <<>>

(***************************************************************************)
(* Inputs of convertToADF.  InputLines holds every kind of line the        *)
(* classification tells apart, on both sides of each boundary; CoreLines   *)
(* are those that open, extend, interrupt or close a list.  A text is any  *)
(* sequence of at most MaxLines core lines, or of fewer lines of any kind. *)
(***************************************************************************)
A49 == RepeatN("a", HeadingMaxLen - 1)

CoreLines ==
  { <<" ">>,                                      \* blank: white space only
    <<"-", " ", "a">>,                            \* bullet
    <<" ", "-", " ", "b", " ">>,                  \* bullet, padded
    <<"1", ".", " ", "a">>,                       \* ordered
    <<"1", "2", ".", " ", "b", " ">>,             \* ordered, two digits, padded
    <<"T">>,                                      \* short line, no terminator
    <<" ", "p", ".", " ">> }                      \* sentence, padded

InputLines ==
  CoreLines \cup
  { <<"1", ".", " ", "a", CR, "b">>,              \* ordered, carriage return inside
    <<"-", " ">>,                                 \* marker with nothing after it
    <<"1", ".", " ">>,                            \* numeral with nothing after it
    <<"q", "?">>,
    <<"r", "!">>,
    <<" ">> \o A49 \o <<" ">>,                    \* 49 characters once trimmed
    A49 \o <<"a">> }                              \* 50 characters

RECURSIVE SeqsUpTo(_, _)
\* The sequences of at most n elements of S
SeqsUpTo(S, n) ==
  IF n = 0 THEN {<<>>}
  ELSE LET shorter == SeqsUpTo(S, n - 1)
       IN  shorter \cup {Append(q, e) : q \in {x \in shorter : Len(x) = n - 1}, e \in S}

\* Lines given alone: a carriage return right behind the marker of an ordered
\* line, and a bullet with two spaces behind the dash
EdgeLines ==
  { <<"1", ".", " ", CR, "b">>,
    <<"-", " ", " ", "x">> }

InputTexts ==
  {Join(ls, <<NL>>) : ls \in SeqsUpTo(CoreLines, MaxLines) \cup SeqsUpTo(InputLines, MaxLines - 1)}
    \cup EdgeLines

(***************************************************************************)
(* convertToADF as a loop over the lines; pc is the position in the code.  *)
(***************************************************************************)
NoCall == [fn |-> "none"]

\* The caller's record of a call that has completed
Completed(fn, arg, result) ==
  /\ first' = IF first.fn = "none" THEN [fn |-> fn, arg |-> arg, result |-> result]
              ELSE first
  /\ ncalls' = ncalls + 1

Line == lines[i + 1]

InLoop == pc = "loop" /\ i < Len(lines)

\* The call with content, currentList and currentListType kept between calls,
\* as variables of the module would be.
CallConvertToADF_SharedState(t) ==
  /\ pc # "loop"
  /\ text' = t
  /\ lines' = SplitOn(t, NL)
  /\ i' = 0
  /\ pc' = "loop"
  /\ UNCHANGED <<content, currentList, currentListType>>
  /\ UNCHANGED <<doc, adf, md, mapped, fieldSet, fields, first, ncalls, request, updateFields, tracker, response>>

\* lines 738-742: split and the initial local state
CallConvertToADF(t) ==
  /\ pc # "loop"
  /\ text' = t
  /\ lines' = SplitOn(t, NL)
  /\ i' = 0
  /\ content' = <<>>
  /\ currentList' = 0
  /\ currentListType' = "null"
  /\ pc' = "loop"
  /\ UNCHANGED <<doc, adf, md, mapped, fieldSet, fields, first, ncalls, request, updateFields, tracker, response>>

\* The blank line that leaves the open list open.
BlankLine_KeepsList ==
  /\ InLoop
  /\ IsBlankLine(Line)
  /\ i' = i + 1
  /\ UNCHANGED <<currentList, currentListType>>
  /\ UNCHANGED <<pc, text, lines, content, doc, adf, md, mapped, fieldSet, fields, first, ncalls, request, updateFields, tracker, response>>

\* lines 749-753
BlankLine ==
  /\ InLoop
  /\ IsBlankLine(Line)
  /\ currentList' = 0
  /\ currentListType' = "null"
  /\ i' = i + 1
  /\ UNCHANGED <<pc, text, lines, content, doc, adf, md, mapped, fieldSet, fields, first, ncalls, request, updateFields, tracker, response>>

\* The list branches: open a list unless one of this type is open, then push
\* the item to the list currentList refers to (a TypeError if it is null).
ListLine(listType, nodeType, item) ==
  LET fresh == currentListType # listType
      c1 == IF fresh THEN Append(content, NewList(nodeType)) ELSE content
      cur == IF fresh THEN Len(c1) ELSE currentList
  IN  IF cur = 0
      THEN /\ pc' = "encodeThrew"
           /\ UNCHANGED <<text, lines, i, content, currentList, currentListType, doc, adf, md, mapped, fieldSet, fields, first, ncalls, request, updateFields, tracker, response>>
      ELSE /\ content' = PushItem(c1, cur, ListItemNode(item))
           /\ currentList' = cur
           /\ currentListType' = listType
           /\ i' = i + 1
           /\ UNCHANGED <<pc, text, lines, doc, adf, md, mapped, fieldSet, fields, first, ncalls, request, updateFields, tracker, response>>

\* lines 756-781
BulletLine ==
  /\ InLoop
  /\ ~IsBlankLine(Line)
  /\ IsBulletLine(Line)
  /\ ListLine("bullet", "bulletList", BulletItem(Line))

\* lines 784-810
NumberedLine ==
  /\ InLoop
  /\ ~IsBlankLine(Line)
  /\ ~IsBulletLine(Line)
  /\ NumberedMatch(Line).matched
  /\ ListLine("ordered", "orderedList", NumberedMatch(Line).item)

\* The heading rule tried before the list rules.
HeadingLine_BeforeLists ==
  /\ InLoop
  /\ ~IsBlankLine(Line)
  /\ IsHeadingLine(lines, i)
  /\ content' = Append(content, HeadingNode(Trim(Line)))
  /\ i' = i + 1
  /\ UNCHANGED <<pc, text, lines, currentList, currentListType, doc, adf, md, mapped, fieldSet, fields, first, ncalls, request, updateFields, tracker, response>>

\* lines 813-834
HeadingLine ==
  /\ InLoop
  /\ ~IsBlankLine(Line)
  /\ ~IsBulletLine(Line)
  /\ ~NumberedMatch(Line).matched
  /\ IsHeadingLine(lines, i)
  /\ content' = Append(content, HeadingNode(Trim(Line)))
  /\ i' = i + 1
  /\ UNCHANGED <<pc, text, lines, currentList, currentListType, doc, adf, md, mapped, fieldSet, fields, first, ncalls, request, updateFields, tracker, response>>

\* lines 837-845
ParagraphLine ==
  /\ InLoop
  /\ ~IsBlankLine(Line)
  /\ ~IsBulletLine(Line)
  /\ ~NumberedMatch(Line).matched
  /\ ~IsHeadingLine(lines, i)
  /\ content' = Append(content, ParagraphNode(Line))
  /\ i' = i + 1
  /\ UNCHANGED <<pc, text, lines, currentList, currentListType, doc, adf, md, mapped, fieldSet, fields, first, ncalls, request, updateFields, tracker, response>>

\* lines 848-852
ReturnDoc ==
  /\ pc = "loop"
  /\ i = Len(lines)
  /\ doc' = [version |-> 1, type |-> "doc", content |-> content]
  /\ pc' = "returned"
  /\ Completed("convertToADF", text, doc')
  /\ UNCHANGED <<text, lines, i, content, currentList, currentListType, adf, md, mapped, fieldSet, fields, request, updateFields, tracker, response>>

NoDoc == [js |-> "undefined"]

(***************************************************************************)
(* Inputs of convertADFToMarkdown: what the tracker may send.              *)
(***************************************************************************)
MaxMarks == 2

MaxRows == 3

MaxNodes == 3

ArrayOf(items) == [js |-> "array", items |-> items]

InputMarks ==
  { [type |-> "strong"], [type |-> "em"], [type |-> "code"], [type |-> "strike"],
    [type |-> "link", attrs |-> [href |-> <<"u">>]], [type |-> "link"],
    [type |-> "underline"] }

MarkedTexts ==
  {[type |-> "text", text |-> <<"x">>, marks |-> ms] : ms \in SeqsUpTo(InputMarks, MaxMarks)}

Cell(nodes) == [type |-> "tableCell", content |-> nodes]

Row(cells) == [type |-> "tableRow", content |-> cells]

InputRows ==
  { Row(<<Cell(<<ParagraphNode(<<"H", "1">>)>>), Cell(<<ParagraphNode(<<"H", "2">>)>>)>>),
    Row(<<Cell(<<ParagraphNode(<<"a">>)>>), Cell(<<ParagraphNode(<<"b">>)>>)>>),
    Row(<<Cell(<<ParagraphNode(<<"c", "|", "d">>)>>)>>),
    Row(<<Cell(<<TextNode(<<"e">>), [type |-> "hardBreak"], TextNode(<<"f">>)>>)>>),
    Row(<<[type |-> "tableCell"], Cell(<<ParagraphNode(<<"g">>)>>), Cell(<<>>)>>),
    Row(<<>>),
    Row(<<Null>>),
    [type |-> "tableRow"],
    [type |-> "tableRow", contentOther |-> TRUE],
    Null }

InputTables ==
  {[type |-> "table", content |-> rows] : rows \in SeqsUpTo(InputRows, MaxRows)}
    \cup {[type |-> "table"], [type |-> "table", contentOther |-> TRUE]}

Item(nodes) == [type |-> "listItem", content |-> nodes]

\* The blocks whose renderings the joining and the final trim tell apart.
CoreBlocks ==
  { ParagraphNode(<<"p">>),
    [type |-> "paragraph", content |-> <<TextNode(<<" ", "s", " ">>)>>],
    Null,
    [type |-> "hardBreak"],
    [type |-> "rule"],
    HeadingNode(<<"h">>) }

InputBlocks ==
  CoreBlocks \cup
  { [type |-> "paragraph"],
    [type |-> "paragraph", content |-> <<Null, TextNode(<<"n">>)>>],
    [type |-> "paragraph", contentOther |-> TRUE],
    [type |-> "text"],
    [content |-> <<TextNode(<<"t">>)>>],
    [type |-> "mention", content |-> <<TextNode(<<"x">>)>>],
    [type |-> "mention"],
    [type |-> "mention", content |-> <<TextNode(<<"x">>), TextNode(<<"y">>)>>],
    [type |-> "panel", content |-> <<ParagraphNode(<<"a">>), ParagraphNode(<<"b">>)>>],
    [type |-> "", content |-> <<TextNode(<<"x">>)>>],
    [type |-> "heading", content |-> <<TextNode(<<"h">>)>>],
    [type |-> "heading", attrs |-> [level |-> 6], content |-> <<TextNode(<<"h">>)>>],
    [type |-> "heading", attrs |-> [level |-> 3]],
    [type |-> "bulletList", content |-> <<ListItemNode(<<"a">>), ListItemNode(<<"b">>)>>],
    [type |-> "orderedList", content |-> <<ListItemNode(<<"a">>), ListItemNode(<<"b">>)>>],
    [type |-> "bulletList", content |-> <<Null>>],
    [type |-> "orderedList", content |-> <<ListItemNode(<<"a">>), Null>>],
    [type |-> "bulletList", content |-> <<[type |-> "listItem"]>>],
    [type |-> "bulletList"],
    [type |-> "bulletList", content |->
       <<Item(<<ParagraphNode(<<"p">>),
                [type |-> "bulletList", content |-> <<ListItemNode(<<"q">>)>>]>>)>>],
    Item(<<ParagraphNode(<<"p">>), ParagraphNode(<<"q">>)>>),
    [type |-> "blockquote", content |-> <<ParagraphNode(<<"a">>), ParagraphNode(<<"b">>)>>],
    [type |-> "blockquote"],
    [type |-> "codeBlock", attrs |-> [language |-> <<"j", "s">>],
       content |-> <<TextNode(<<"c">>)>>],
    [type |-> "codeBlock", content |-> <<TextNode(<<"c">>), TextNode(<<"d">>)>>],
    [type |-> "image", attrs |-> [alt |-> <<"i">>, src |-> <<"u">>]],
    [type |-> "image"],
    [type |-> "doc", content |-> <<ParagraphNode(<<"a">>), ParagraphNode(<<"b">>)>>],
    [type |-> "table", content |-> <<Null>>] }

\* A document holds at most MaxNodes core blocks, or fewer blocks of any kind.
InputDocs ==
  {[version |-> 1, type |-> "doc", content |-> ns] :
     ns \in SeqsUpTo(CoreBlocks, MaxNodes) \cup SeqsUpTo(InputBlocks, MaxNodes - 2)}

\* Headings of every level, and with attributes that hold no level
InputHeadings ==
  {[type |-> "heading", attrs |-> [level |-> L], content |-> <<TextNode(<<"h">>), TextNode(<<"k">>)>>] :
     L \in 1..6}
    \cup {[type |-> "heading", attrs |-> [id |-> <<"i">>], content |-> <<TextNode(<<"h">>)>>]}

ADFInputs ==
  InputDocs
    \cup {ArrayOf(<<h>>) : h \in InputHeadings}
    \cup {ArrayOf(d.content) : d \in InputDocs}
    \cup {ArrayOf(<<t>>) : t \in MarkedTexts \cup InputTables}
    \cup { [js |-> "undefined"], Null, [js |-> "number"], [js |-> "string"],
           [type |-> "doc"], [type |-> "doc", contentOther |-> TRUE],
           [version |-> 1] }

\* A call of convertADFToMarkdown, on a tree of the tracker or on the document
\* convertToADF returned.
CallConvertADFToMarkdown(v) ==
  LET r == convertADFToMarkdown(v)
  IN  /\ pc # "loop"
      /\ adf' = v
      /\ md' = IF r = Raise THEN <<>> ELSE r
      /\ mapped' = IF r = Raise THEN <<>> ELSE MappedNodes(v)
      /\ pc' = IF r = Raise THEN "renderThrew" ELSE "rendered"
      /\ Completed("convertADFToMarkdown", v, [threw |-> r = Raise, md |-> md'])
      /\ UNCHANGED encVars
      /\ UNCHANGED <<fldVars, toolVars>>

(***************************************************************************)
(* getJiraFields.  An identifier is a JavaScript string value; FIELD_SETS  *)
(* is an object literal, so a lookup that finds no own property goes on to *)
(* Object.prototype.                                                       *)
(***************************************************************************)
Str(s) == [js |-> "string", value |-> s]

\* lines 1041-1066: the own properties of FIELD_SETS
FIELD_SETS ==
  [ basic |-> ArrayOf(<<"summary", "description", "status">>),
    navigable |-> ArrayOf(<<"*navigable", "Rank">>),
    full |-> ArrayOf(<<"*navigable", "id", "key", "summary", "description", "status",
                       "assignee", "reporter", "created", "updated", "resolutiondate",
                       "parent", "subtasks", "issuelinks", "comment", "worklog", "Rank">>) ]

\* The properties an object literal inherits from Object.prototype.
ObjectPrototypeKeys ==
  { "constructor", "toString", "toLocaleString", "valueOf", "hasOwnProperty",
    "isPrototypeOf", "propertyIsEnumerable", "__proto__", "__defineGetter__",
    "__defineSetter__", "__lookupGetter__", "__lookupSetter__" }

\* The key a property lookup uses for a value: ToPropertyKey
PropertyKey(v) ==
  CASE v.js = "string" -> v.value
    [] v.js = "null" -> "null"
    [] OTHER -> "undefined"

\* FIELD_SETS[key]: an own property, an inherited one (a function, or the
\* prototype object itself), or undefined
Lookup(key) ==
  IF key \in DOMAIN FIELD_SETS THEN FIELD_SETS[key]
  ELSE IF key \in ObjectPrototypeKeys THEN [js |-> "inherited", name |-> key]
  ELSE [js |-> "undefined"]

\* lines 1040-1069: the default parameter applies to undefined only; every
\* value looked up that is not undefined is truthy
getJiraFields(arg) ==
  LET key == IF arg.js = "undefined" THEN "navigable" ELSE PropertyKey(arg)
      found == Lookup(key)
  IN  IF found.js # "undefined" THEN found ELSE FIELD_SETS.navigable

\* The identifiers a caller passes: the three names, names that are no field
\* set, names Object.prototype defines, no argument, and null.
FieldSetInputs ==
  {Str(s) : s \in {"basic", "navigable", "full", "bogus", "", "Basic", "constructor", "toString"}}
    \cup {[js |-> "undefined"], Null}

CallGetJiraFields(arg) ==
  /\ fieldSet' = arg
  /\ fields' = getJiraFields(arg)
  /\ pc' = "resolved"
  /\ UNCHANGED <<encVars, adf, md, mapped, histVars, toolVars>>

Init ==
  /\ pc = "idle"
  /\ text = <<>>
  /\ lines = <<>>
  /\ i = 0
  /\ content = <<>>
  /\ currentList = 0
  /\ currentListType = "null"
  /\ doc = NoDoc
  /\ adf = NoDoc
  /\ md = <<>>
  /\ mapped = <<>>
  /\ fieldSet = NoDoc
  /\ fields = NoDoc
  /\ first = NoCall
  /\ ncalls = 0
  /\ request = NoDoc
  /\ updateFields = {}
  /\ tracker = <<>>
  /\ response = NoDoc

Next ==
  \/ pc = "idle" /\ \E t \in InputTexts : CallConvertToADF(t)
  \/ BlankLine
  \/ BulletLine
  \/ NumberedLine
  \/ HeadingLine
  \/ ParagraphLine
  \/ ReturnDoc
  \/ pc = "idle" /\ \E v \in ADFInputs : CallConvertADFToMarkdown(v)
  \/ pc = "returned" /\ CallConvertADFToMarkdown(doc)
  \/ pc = "idle" /\ \E f \in FieldSetInputs : CallGetJiraFields(f)

Spec == Init /\ [][Next]_vars

(***************************************************************************)
(* Calls one after the other.  Both transforms are synchronous, so a call  *)
(* begins only when no call is under way; what an earlier call left behind *)
(* (its locals, the values it returned) is still in the state when the     *)
(* next one begins.                                                        *)
(***************************************************************************)
MaxCalls == 2

CallLines ==
  { <<"-", " ", "a">>, <<"1", ".", " ", "a">>, <<"T">>, <<"p", ".">>, <<" ">> }

\* One line of each kind, and a list of two items
CallTexts ==
  {Join(<<l>>, <<NL>>) : l \in CallLines}
    \cup {Join(<<(<<"-", " ", "a">>), (<<"-", " ", "b">>)>>, <<NL>>)}

CallTrees ==
  { ArrayOf(<<ParagraphNode(<<"p">>)>>),
    [version |-> 1, type |-> "doc", content |->
       <<[type |-> "bulletList", content |-> <<ListItemNode(<<"a">>)>>]>>],
    ArrayOf(<<[type |-> "bulletList", content |-> <<Null>>]>>) }

NextCalls ==
  \/ pc # "loop" /\ ncalls < MaxCalls /\ \E t \in CallTexts : CallConvertToADF(t)
  \/ BlankLine
  \/ BulletLine
  \/ NumberedLine
  \/ HeadingLine
  \/ ParagraphLine
  \/ ReturnDoc
  \/ pc # "loop" /\ ncalls < MaxCalls /\ \E v \in CallTrees : CallConvertADFToMarkdown(v)
  \/ pc # "loop" /\ ncalls < MaxCalls /\ doc # NoDoc /\ CallConvertADFToMarkdown(doc)

SpecCalls == Init /\ [][NextCalls]_vars

(***************************************************************************)
(* The tool-call handler (setupToolHandlers, lines 49-491).  The arguments *)
(* of a request are a JavaScript value: an object is a record of the       *)
(* properties it has, whose values are undefined, null, a string or a      *)
(* number.  The texts of messages are TLA+ strings; the text of a response *)
(* is the pair of the strings the code concatenates.                       *)
(***************************************************************************)
Undefined == [js |-> "undefined"]

\* A number that is not zero
Num == [js |-> "number"]

\* !!v
Truthy(v) ==
  \/ IsObject(v)
  \/ v.js \in {"array", "number"}
  \/ v.js = "string" /\ v.value # ""

\* args.k
Prop(args, k) == IF Has(args, k) THEN args[k] ELSE Undefined

\* typeof v !== "string" || v.length === 0
NotAString(v) == IsObject(v) \/ ~(v.js = "string" /\ v.value # "")

\* lines 64-72 and alike: !request.params.arguments || typeof ... !== "object"
ArgumentsMissing(args) == ~Truthy(args) \/ ~(IsObject(args) \/ IsArray(args))

Ok == "ok"

\* The message of the first check that fails, Ok if none does
FirstFailure(checks) ==
  IF \A k \in 1..Len(checks) : ~checks[k][1] THEN Ok
  ELSE checks[SetMin({k \in 1..Len(checks) : checks[k][1]})][2]

\* typeof args !== "object" || args === null
NotAnObject(args) == ~(IsObject(args) \/ IsArray(args))

\* lines 497-515
validateDeleteIssueArgs(args) ==
  FirstFailure(<< <<NotAnObject(args), "Arguments must be an object">>,
                  <<NotAString(Prop(args, "issueKey")), "Issue key is required and must be a string">> >>)

\* lines 520-552
validateCreateIssueArgs(args) ==
  FirstFailure(<< <<NotAnObject(args), "Arguments must be an object">>,
                  <<NotAString(Prop(args, "projectKey")), "Project key is required and must be a string">>,
                  <<NotAString(Prop(args, "summary")), "Summary is required and must be a string">>,
                  <<NotAString(Prop(args, "issueType")), "Issue type is required and must be a string">> >>)

\* lines 557-575
validateGetUserArgs(args) ==
  FirstFailure(<< <<NotAnObject(args), "Arguments must be an object">>,
                  <<NotAString(Prop(args, "email")), "Email is required and must be a string">> >>)

\* fieldSet !== undefined && fieldSet !== 'basic' && ... (lines 598, 692)
BadFieldSet(v) == v # Undefined /\ v \notin {Str("basic"), Str("full"), Str("navigable")}

\* lines 580-606
validateGetIssuesArgs(args) ==
  FirstFailure(<< <<NotAnObject(args), "Arguments must be an object">>,
                  <<NotAString(Prop(args, "projectKey")), "Project key is required and must be a string">>,
                  <<BadFieldSet(Prop(args, "fieldSet")),
                    "Field set must be either 'basic', 'full', or 'navigable'">> >>)

\* lines 611-629
validateUpdateIssueArgs(args) ==
  FirstFailure(<< <<NotAnObject(args), "Arguments must be an object">>,
                  <<NotAString(Prop(args, "issueKey")), "Issue key is required and must be a string">> >>)

\* lines 634-670
validateCreateIssueLinkArgs(args) ==
  FirstFailure(<< <<NotAnObject(args), "Arguments must be an object">>,
                  <<NotAString(Prop(args, "inwardIssueKey")),
                    "Inward issue key is required and must be a string">>,
                  <<NotAString(Prop(args, "outwardIssueKey")),
                    "Outward issue key is required and must be a string">>,
                  <<NotAString(Prop(args, "linkType")), "Link type is required and must be a string">> >>)

\* lines 675-701
validateReadIssueArgs(args) ==
  FirstFailure(<< <<NotAnObject(args), "Arguments must be an object">>,
                  <<NotAString(Prop(args, "issueKey")), "Issue key is required and must be a string">>,
                  <<BadFieldSet(Prop(args, "fieldSet")),
                    "Field set must be either 'basic', 'navigable', or 'full'">> >>)

\* lines 706-725
validateListIssueTypesArgs(args) ==
  FirstFailure(<< <<NotAnObject(args), "Arguments must be an object">>,
                  <<Prop(args, "projectKey") # Undefined
                      /\ (IsObject(Prop(args, "projectKey")) \/ Prop(args, "projectKey").js # "string"),
                    "Project key must be a string">> >>)

\* What a run of the handler between two awaits ends in: an exception thrown
\* inside the try, a call of the tracker that is awaited, or a return, with
\* updateFields as the run leaves it.
Throw(message) == [kind |-> "throw", message |-> message, fields |-> {}]

CallTracker(op, collected) == [kind |-> "call", op |-> op, fields |-> collected]

Return(resp) == [kind |-> "return", response |-> resp, fields |-> {}]

\* JSON.stringify of an object with the given message or payload
Json(what) == <<"{", what, "}">>

Success(what) == [content |-> Json(what)]

\* lines 481-488: the response of the catch
Failure(message) == [content |-> <<"Operation failed: ">> \o message, isError |-> TRUE]

\* e.message of the TypeError a call of a method the value does not have raises
TypeErrorMessage(what) == <<what, " is not a function">>

\* String.prototype.toLowerCase on the names in use
Lower(s) ==
  CASE s = "Done" -> "done"
    [] s = "Start" -> "start"
    [] s = "Nope" -> "nope"
    [] OTHER -> s

\* A handler that calls updateIssue whatever was collected
UpdateFinish_Always(args, collected) ==
  CallTracker("updateIssue",
              collected \cup (IF Truthy(Prop(args, "priority")) THEN {"priority"} ELSE {}))

\* lines 229-250: the priority, then updateIssue if anything was collected
UpdateFinish(args, collected) ==
  LET all == collected \cup (IF Truthy(Prop(args, "priority")) THEN {"priority"} ELSE {})
  IN  IF all # {} THEN CallTracker("updateIssue", all)
      ELSE Return(Success("Issue updated successfully"))

\* lines 217-220
UpdateStatus(args, collected) ==
  IF Truthy(Prop(args, "status")) THEN CallTracker("listTransitions", collected)
  ELSE UpdateFinish(args, collected)

\* lines 207-212
UpdateAssignee(args, collected) ==
  IF Truthy(Prop(args, "assignee")) THEN CallTracker("searchUsers", collected)
  ELSE UpdateStatus(args, collected)

\* lines 199-206: summary and description; convertToADF calls text.split
UpdateBegin(args) ==
  LET summary == IF Truthy(Prop(args, "summary")) THEN {"summary"} ELSE {}
      description == Prop(args, "description")
  IN  IF Truthy(description) /\ description.js # "string"
      THEN Throw(TypeErrorMessage("text.split"))
      ELSE UpdateAssignee(args, summary \cup (IF Truthy(description) THEN {"description"} ELSE {}))

\* A case that checks only that there are arguments
Checked_Unvalidated(args, failure, rest) ==
  IF ArgumentsMissing(args) THEN Throw(<<"Arguments are required">>) ELSE rest

\* The check of the arguments every case but the first two begins with, then
\* the validation of the tool, then the rest of the run
Checked(args, failure, rest) ==
  IF ArgumentsMissing(args) THEN Throw(<<"Arguments are required">>)
  ELSE IF failure # Ok THEN Throw(<<failure>>)
  ELSE rest

\* lines 358-376: the description is converted before addNewIssue is called
CreateBegin(args) ==
  LET description == Prop(args, "description")
  IN  IF Truthy(description) /\ description.js # "string"
      THEN Throw(TypeErrorMessage("text.split"))
      ELSE CallTracker("addNewIssue", {})

\* lines 50-479: from the switch to the first await, the throw or the return
Begin(req) ==
  LET args == req.arguments
  IN  CASE req.name = "jira_list_fields" -> CallTracker("listFields", {})
        [] req.name = "jira_list_link_types" -> CallTracker("listIssueLinkTypes", {})
        [] req.name = "jira_list_issue_types" ->
             Checked(args, validateListIssueTypesArgs(args), CallTracker("listIssueTypes", {}))
        [] req.name = "jira_get_issues" ->
             Checked(args, validateGetIssuesArgs(args), CallTracker("searchJira", {}))
        [] req.name = "jira_update_issue" ->
             Checked(args, validateUpdateIssueArgs(args), UpdateBegin(args))
        [] req.name = "jira_get_user" ->
             Checked(args, validateGetUserArgs(args), CallTracker("searchUsers", {}))
        [] req.name = "jira_read_issue" ->
             Checked(args, validateReadIssueArgs(args), CallTracker("getIssue", {}))
        [] req.name = "jira_create_issue" ->
             Checked(args, validateCreateIssueArgs(args), CreateBegin(args))
        [] req.name = "jira_delete_issue" ->
             Checked(args, validateDeleteIssueArgs(args), CallTracker("deleteIssue", {}))
        [] req.name = "jira_create_issue_link" ->
             Checked(args, validateCreateIssueLinkArgs(args), CallTracker("issueLink", {}))
        [] OTHER -> Throw(<<"Unknown tool: ", req.name>>)

\* users && users.length > 0 (line 212); !response || response.length === 0
\* (line 282) is its negation
SomeUser(users) == IsArray(users) /\ Len(users.items) > 0

\* lines 221-228: find calls toLowerCase on the status for the first
\* transition it looks at
AfterListTransitions(args, result, collected) ==
  LET ts == result.transitions
      status == Prop(args, "status")
  IN  IF Len(ts) = 0 THEN UpdateFinish(args, collected)
      ELSE IF status.js # "string"
           THEN Throw(TypeErrorMessage("args.status?.toLowerCase"))
      ELSE IF \E k \in 1..Len(ts) : Lower(ts[k].name) = Lower(status.value)
           THEN CallTracker("transitionIssue", collected)
      ELSE UpdateFinish(args, collected)

\* The run of the handler after the tracker has answered the call op
Resume(req, op, result, collected) ==
  LET args == req.arguments
  IN  CASE req.name = "jira_update_issue" /\ op = "searchUsers" ->
             UpdateStatus(args, collected \cup (IF SomeUser(result) THEN {"assignee"} ELSE {}))
        [] req.name = "jira_update_issue" /\ op = "listTransitions" ->
             AfterListTransitions(args, result, collected)
        [] req.name = "jira_update_issue" /\ op = "transitionIssue" ->
             UpdateFinish(args, collected)
        [] req.name = "jira_update_issue" /\ op = "updateIssue" ->
             Return(Success("Issue updated successfully"))
        [] req.name = "jira_get_user" ->
             IF SomeUser(result) THEN Return(Success("accountId"))
             ELSE Return([content |-> <<"No user found with email: ", Prop(args, "email").value>>,
                          isError |-> TRUE])
        [] req.name = "jira_list_issue_types" /\ op = "listIssueTypes" ->
             IF Truthy(Prop(args, "projectKey")) THEN CallTracker("getProject", {})
             ELSE Return(Success("issueTypes"))
        [] req.name = "jira_get_issues" ->
             IF result.descriptions = "throwing"
             THEN Throw(<<"Cannot read properties of null (reading 'content')">>)
             ELSE Return(Success("issues"))
        [] req.name = "jira_create_issue" -> Return(Success("Issue created successfully"))
        [] req.name = "jira_delete_issue" -> Return(Success("Issue deleted successfully"))
        [] req.name = "jira_create_issue_link" -> Return(Success("Issue link created successfully"))
        [] OTHER -> Return(Success(op))

\* error instanceof Error ? error.message : "Unknown error occurred"
ErrorMessage(error) ==
  IF Has(error, "message") THEN error.message ELSE <<"Unknown error occurred">>

\* A handler whose every awaited call sits in a try of its own
Rejected_SwallowsAll(req, op, error) == Return(Success(op))

\* The run after the awaited call has failed: the catch of lines 111-114 for
\* getProject, the catch of line 480 for every other call
Rejected(req, op, error) ==
  IF req.name = "jira_list_issue_types" /\ op = "getProject"
  THEN Return(Success("issueTypes"))
  ELSE Throw(ErrorMessage(error))

(***************************************************************************)
(* The tracker: what each operation may answer, and how it may fail.       *)
(***************************************************************************)
Transition(id, name) == [id |-> id, name |-> name]

Results(op) ==
  CASE op = "searchUsers" ->
         { Null, ArrayOf(<<>>), ArrayOf(<<[accountId |-> "u1"]>>) }
    [] op = "listTransitions" ->
         { [transitions |-> <<>>],
           [transitions |-> <<Transition("1", "Start")>>],
           [transitions |-> <<Transition("1", "Start"), Transition("2", "Done")>>] }
    [] op = "searchJira" ->
         { [descriptions |-> "rendering"], [descriptions |-> "throwing"] }
    [] op = "getProject" ->
         { [key |-> "P"], [key |-> "P", issueTypes |-> "some"] }
    [] OTHER -> { [done |-> TRUE] }

\* An Error, and a value that is not one
TrackerErrors == { [name |-> "Error", message |-> <<"Request failed">>], Str("down") }

NonObjects == { Undefined, Null, Str("x"), Num, ArrayOf(<<>>), [extra |-> Str("e")] }

ArgValues == { Undefined, Null, Str(""), Str("x"), Num }

RequestsOf(name, arguments) == {[name |-> name, arguments |-> a] : a \in arguments \cup NonObjects}

UpdateArguments ==
  {[issueKey |-> k, summary |-> s, description |-> d, assignee |-> a, status |-> t, priority |-> p] :
     k \in {Str("K")},
     s \in {Undefined, Str(""), Str("s")},
     d \in {Undefined, Str(""), Str("d"), Num},
     a \in {Undefined, Str("a")},
     t \in {Undefined, Str("done"), Str("Nope"), Num},
     p \in {Undefined, Str("High")}}
    \cup {[issueKey |-> k, summary |-> Str("s"), status |-> Str("done")] : k \in ArgValues}

Requests ==
  RequestsOf("jira_list_fields", {})
    \cup RequestsOf("jira_list_link_types", {})
    \cup RequestsOf("jira_list_issue_types", {[projectKey |-> v] : v \in ArgValues})
    \cup RequestsOf("jira_get_issues",
           {[projectKey |-> v, fieldSet |-> f] :
              v \in ArgValues, f \in {Undefined, Null, Str("basic"), Str("bogus")}})
    \cup RequestsOf("jira_update_issue", UpdateArguments)
    \cup RequestsOf("jira_get_user", {[email |-> v] : v \in ArgValues})
    \cup RequestsOf("jira_read_issue",
           {[issueKey |-> v, fieldSet |-> f] :
              v \in ArgValues, f \in {Undefined, Null, Str("full"), Str("bogus")}})
    \cup RequestsOf("jira_create_issue",
           {[projectKey |-> v, summary |-> s, issueType |-> t, description |-> d] :
              v \in ArgValues, s \in ArgValues, t \in ArgValues,
              d \in {Undefined, Str("d"), Num}})
    \cup RequestsOf("jira_delete_issue", {[issueKey |-> v] : v \in ArgValues})
    \cup RequestsOf("jira_create_issue_link",
           {[inwardIssueKey |-> v, outwardIssueKey |-> w, linkType |-> t] :
              v \in ArgValues, w \in ArgValues, t \in ArgValues})
    \cup RequestsOf("jira_bogus", {})

\* The call the handler is waiting for
Awaited == tracker[Len(tracker)]

\* What a run ends in, applied to the state
Apply(outcome) ==
  CASE outcome.kind = "throw" ->
         /\ response' = Failure(outcome.message)
         /\ pc' = "responded"
         /\ UNCHANGED updateFields
    [] outcome.kind = "return" ->
         /\ response' = outcome.response
         /\ pc' = "responded"
         /\ UNCHANGED updateFields
    [] outcome.kind = "call" ->
         /\ pc' = "awaiting"
         /\ updateFields' = outcome.fields
         /\ UNCHANGED response

\* The tracker's record of its calls after the run: the awaited call answered
\* as told (with the value it resolved to or rejected with), the call the run
\* makes added
Recorded(log, outcome) ==
  IF outcome.kind = "call"
  THEN Append(log, [op |-> outcome.op,
                    fields |-> IF outcome.op = "updateIssue" THEN outcome.fields ELSE {},
                    answer |-> "pending", result |-> Undefined])
  ELSE log

Answered(how, what) ==
  [tracker EXCEPT ![Len(tracker)].answer = how, ![Len(tracker)].result = what]

\* lines 49-51: a request arrives and the handler runs to its first await
CallTool(req) ==
  /\ request' = req
  /\ Apply(Begin(req))
  /\ tracker' = Recorded(tracker, Begin(req))
  /\ UNCHANGED <<encVars, adf, md, mapped, fldVars, histVars>>

\* The awaited call resolves and the handler runs on
TrackerResolves(result) ==
  LET outcome == Resume(request, Awaited.op, result, updateFields)
  IN  /\ Apply(outcome)
      /\ tracker' = Recorded(Answered("resolved", result), outcome)
      /\ UNCHANGED <<request, encVars, adf, md, mapped, fldVars, histVars>>

\* The awaited call rejects and the handler runs on in a catch
TrackerRejects(error) ==
  LET outcome == Rejected(request, Awaited.op, error)
  IN  /\ Apply(outcome)
      /\ tracker' = Recorded(Answered("rejected", error), outcome)
      /\ UNCHANGED <<request, encVars, adf, md, mapped, fldVars, histVars>>

NextTools ==
  \/ pc = "idle" /\ \E req \in Requests : CallTool(req)
  \/ pc = "awaiting" /\ \E result \in Results(Awaited.op) : TrackerResolves(result)
  \/ pc = "awaiting" /\ \E error \in TrackerErrors : TrackerRejects(error)

SpecTools == Init /\ [][NextTools]_vars

(***************************************************************************)
(* Properties of convertToADF.                                             *)
(***************************************************************************)
Returned == pc \in {"returned", "rendered", "renderThrew"} /\ doc # NoDoc

IsTextLeaf(n) == DOMAIN n = {"type", "text"} /\ n.type = "text"

HoldsOneText(n) == Has(n, "content") /\ Len(n.content) = 1 /\ IsTextLeaf(n.content[1])

WellFormedItem(n) ==
  /\ Has(n, "type") /\ n.type = "listItem"
  /\ Has(n, "content") /\ Len(n.content) = 1
  /\ Has(n.content[1], "type") /\ n.content[1].type = "paragraph"
  /\ HoldsOneText(n.content[1])

WellFormedTop(n) ==
  /\ Has(n, "type")
  /\ \/ n.type = "heading" /\ Has(n, "attrs") /\ n.attrs = [level |-> 2] /\ HoldsOneText(n)
     \/ n.type = "paragraph" /\ HoldsOneText(n)
     \/ /\ n.type \in {"bulletList", "orderedList"}
        /\ Has(n, "content")
        /\ \A k \in 1..Len(n.content) : WellFormedItem(n.content[k])

\* C1: for every input convertToADF returns without raising, and what it
\* returns is a doc whose top-level nodes are level-2 headings, paragraphs,
\* bulletLists or orderedLists, whose lists hold only listItems, each listItem
\* wrapping exactly one paragraph that holds exactly one text leaf.
C1_WellFormedDoc ==
  /\ pc # "encodeThrew"
  /\ pc = "loop" => i <= Len(lines)
  /\ Returned =>
       /\ doc.type = "doc"
       /\ \A k \in 1..Len(doc.content) : WellFormedTop(doc.content[k])

TopTypes(d) == {d.content[k].type : k \in 1..Len(d.content)}

C1_Witness ==
  /\ pc = "returned"
  /\ TopTypes(doc) = {"heading", "paragraph", "bulletList"}

RECURSIVE LeavesOf(_)
\* The text leaves of a sequence of nodes the encoder built, in document order.
LeavesOf(nodes) ==
  IF Len(nodes) = 0 THEN <<>>
  ELSE LET n == Head(nodes)
       IN  (IF n.type = "text" THEN <<n.text>> ELSE LeavesOf(n.content)) \o LeavesOf(Tail(nodes))

\* The text the leaf of a non-blank line holds.
LeafOfLine(ls, k) ==
  IF IsBulletLine(ls[k + 1]) THEN BulletItem(ls[k + 1])
  ELSE IF NumberedMatch(ls[k + 1]).matched THEN NumberedMatch(ls[k + 1]).item
  ELSE IF IsHeadingLine(ls, k) THEN Trim(ls[k + 1])
  ELSE ls[k + 1]

RECURSIVE LeavesOfLines(_, _)
\* The leaves of the non-blank lines from index k (0-based) on, in input order.
LeavesOfLines(ls, k) ==
  IF k >= Len(ls) THEN <<>>
  ELSE (IF IsBlankLine(ls[k + 1]) THEN <<>> ELSE <<LeafOfLine(ls, k)>>) \o LeavesOfLines(ls, k + 1)

\* C2: convertToADF preserves input order: the text leaves of the document,
\* read in document order, are those of the non-blank input lines in input
\* order, so that a paragraph between two list lines lies between their items.
C2_OrderPreserved == Returned => LeavesOf(doc.content) = LeavesOfLines(lines, 0)

\* C3: a non-blank line that is neither a bullet line nor an ordered-list
\* line becomes a level-2 heading holding the trimmed line exactly when the
\* next line is blank or the line is the last one, the trimmed line does not
\* end in '.', '?' or '!', and the trimmed length is at most 49; otherwise it
\* becomes a paragraph holding the line as given.
C3_HeadingIff ==
  [][ (InLoop /\ ~IsBlankLine(Line) /\ ~IsBulletLine(Line) /\ ~NumberedMatch(Line).matched) =>
        LET t == Trim(Line)
            isLast == i + 1 = Len(lines)
            nextBlank == i + 2 <= Len(lines) /\ \A k \in 1..Len(lines[i + 2]) : IsWhite(lines[i + 2][k])
            qualifies == /\ (nextBlank \/ isLast)
                         /\ t[Len(t)] \notin {".", "?", "!"}
                         /\ Len(t) <= 49
        IN  content' = Append(content,
              IF qualifies
              THEN [type |-> "heading", attrs |-> [level |-> 2],
                    content |-> <<[type |-> "text", text |-> t]>>]
              ELSE [type |-> "paragraph", content |-> <<[type |-> "text", text |-> Line]>>])
    ]_vars

C3_Witness ==
  /\ pc = "returned"
  /\ \E h, q \in 1..Len(doc.content) :
       /\ doc.content[h].type = "heading" /\ Len(doc.content[h].content[1].text) = 49
       /\ doc.content[q].type = "paragraph" /\ Len(doc.content[q].content[1].text) = 50

\* The text of a bullet line after its "- " marker.
AfterBullet(line) == SubSeq(Trim(line), 3, Len(Trim(line)))

\* The text of an ordered line after its numeral, the period and the space.
AfterNumeral(line) ==
  LET t == Trim(line)
      d == SetMin({k \in 1..Len(t) : t[k] = "."})
  IN  SubSeq(t, d + 2, Len(t))

ItemHolding(s) ==
  [type |-> "listItem",
   content |-> << [type |-> "paragraph", content |-> <<[type |-> "text", text |-> s]>>] >>]

AllLines(P(_)) == Len(lines) >= 1 /\ \A k \in 1..Len(lines) : P(lines[k])

IsNumberedLine(line) == ~IsBulletLine(line) /\ NumberedMatch(line).matched

\* C4: an input of n >= 1 consecutive bullet lines and nothing else encodes
\* to exactly one bulletList of n listItems, the i-th holding the text of the
\* i-th line after its "- " marker; likewise for ordered lines and orderedList.
C4_OneListPerRun ==
  /\ (Returned /\ AllLines(IsBulletLine)) =>
       doc.content = << [type |-> "bulletList",
                         content |-> [k \in 1..Len(lines) |-> ItemHolding(AfterBullet(lines[k]))]] >>
  /\ (Returned /\ AllLines(IsNumberedLine)) =>
       doc.content = << [type |-> "orderedList",
                         content |-> [k \in 1..Len(lines) |-> ItemHolding(AfterNumeral(lines[k]))]] >>

\* C5: a run of n ordered lines "<d_i>. <t_i>" renders, after encoding, as
\* "1. t_1\n2. t_2\n...\nn. t_n" whatever the numerals d_i are.
C5_NumeralsNormalised ==
  (pc = "rendered" /\ doc # NoDoc /\ AllLines(IsNumberedLine)) =>
    md = Join([k \in 1..Len(lines) |-> NatToString(k) \o <<".", " ">> \o AfterNumeral(lines[k])],
              <<NL>>)

WhitespaceOnly(line) == \A k \in 1..Len(line) : line[k] \in {" ", "\t", CR}

\* C6: the content of the result is empty exactly when every line of the
\* input is blank; the empty string gives empty content, and a blank line
\* never contributes a node.
C6_EmptyIffAllBlank ==
  /\ Returned =>
       (doc.content = <<>> <=> \A k \in 1..Len(lines) : WhitespaceOnly(lines[k]))
  /\ (Returned /\ text = <<>>) => doc.content = <<>>
  /\ pc = "loop" =>
       Len(content) <= Cardinality({k \in 1..i : ~WhitespaceOnly(lines[k])})

C6_Witness ==
  /\ pc = "returned"
  /\ Len(lines) = 3
  /\ \E k \in 1..3 : Len(lines[k]) > 0
  /\ doc.content = <<>>

(***************************************************************************)
(* Properties of convertADFToMarkdown.                                     *)
(***************************************************************************)
Called == pc \in {"rendered", "renderThrew"}

\* What the call gave: the string returned, or Raise.
CallResult == IF pc = "renderThrew" THEN Raise ELSE md

\* C7: convertADFToMarkdown never raises, whatever node of the tree is null,
\* lacks content or carries an unrecognized type, and for non-object input.
C7_NeverRaises == pc # "renderThrew"

DocShaped(v) == IsObject(v) /\ "content" \in DOMAIN v

\* C8: for a doc-shaped object d whose content is a sequence,
\* convertADFToMarkdown(d) is convertADFToMarkdown(d.content); an input that
\* is not an object, or is neither a sequence nor an object with a sequence as
\* content, gives the empty string.
C8_ContentOrSelf ==
  /\ (Called /\ DocShaped(adf)) => CallResult = convertADFToMarkdown(ArrayOf(adf.content))
  /\ (Called /\ ~IsArray(adf) /\ ~DocShaped(adf)) => (pc = "rendered" /\ md = <<>>)

C8_Witness ==
  /\ pc = "rendered"
  /\ DocShaped(adf)
  /\ Len(adf.content) = 2
  /\ md = <<"p", NL, NL, "-", "-", "-">>

\* The wrapper of one mark.
MarkWrap(m, x) ==
  CASE m.type = "strong" -> <<"*", "*">> \o x \o <<"*", "*">>
    [] m.type = "em" -> <<"*">> \o x \o <<"*">>
    [] m.type = "code" -> <<BQ>> \o x \o <<BQ>>
    [] m.type = "strike" -> <<"~", "~">> \o x \o <<"~", "~">>
    [] m.type = "link" /\ "attrs" \in DOMAIN m -> <<"[">> \o x \o <<"]", "(">> \o m.attrs.href \o <<")">>
    [] m.type = "link" /\ "attrs" \notin DOMAIN m -> <<"[">> \o x \o <<"]", "(", ")">>
    [] OTHER -> x

RECURSIVE Nested(_, _)
\* wrap(m_k, ... wrap(m_1, x))
Nested(x, ms) ==
  IF Len(ms) = 0 THEN x ELSE MarkWrap(ms[Len(ms)], Nested(x, SubSeq(ms, 1, Len(ms) - 1)))

OneMarkedText == IsArray(adf) /\ Len(adf.items) = 1 /\ Has(adf.items[1], "marks")

\* C9: a text node with marks m_1..m_k renders as wrap(m_k, ... wrap(m_1, text)),
\* the first mark innermost; [strong, em] on "x" gives "***x***", and a mark of
\* another type leaves the text unchanged.
C9_MarksInOrder ==
  (Called /\ OneMarkedText) =>
     /\ pc = "rendered"
     /\ md = Nested(adf.items[1].text, adf.items[1].marks)

C9_Witness ==
  /\ pc = "rendered"
  /\ OneMarkedText
  /\ adf.items[1].marks = <<[type |-> "strong"], [type |-> "em"]>>
  /\ md = <<"*", "*", "*", "x", "*", "*", "*">>

\* The rendered text of a table cell.
CellText(c) == EscapePipes(Children(c, <<>>))

WellFormedRow(r) ==
  /\ Has(r, "content")
  /\ \A k \in 1..Len(r.content) :
       /\ IsObject(r.content[k])
       /\ ContentKind(r.content[k]) # "other"
       /\ \A j \in 1..Len(CellText(r.content[k])) : CellText(r.content[k])[j] # NL

OneTable ==
  /\ IsArray(adf) /\ Len(adf.items) = 1
  /\ Has(adf.items[1], "type") /\ adf.items[1].type = "table"
  /\ Has(adf.items[1], "content")
  /\ Len(adf.items[1].content) >= 1
  /\ \A k \in 1..Len(adf.items[1].content) : WellFormedRow(adf.items[1].content[k])

\* "| c1 | c2 | ... |"
RowForm(cells) == <<"|", " ">> \o Join(cells, <<" ", "|", " ">>) \o <<" ", "|">>

\* C10: a table of R >= 1 well-formed rows with single-line cells renders to
\* exactly R+1 lines: the first row, a separator of one "---" per cell of the
\* first row, then rows 2..R in order, each of the form "| c1 | c2 | ... |".
C10_TableLines ==
  (Called /\ OneTable) =>
     LET rows == adf.items[1].content
         cellsOf(r) == [k \in 1..Len(r.content) |-> CellText(r.content[k])]
         out == SplitOn(md, NL)
     IN  /\ pc = "rendered"
         /\ Len(out) = Len(rows) + 1
         /\ out[1] = RowForm(cellsOf(rows[1]))
         /\ out[2] = RowForm([k \in 1..Len(rows[1].content) |-> <<"-", "-", "-">>])
         /\ \A j \in 2..Len(rows) : out[j + 1] = RowForm(cellsOf(rows[j]))

C10_Witness ==
  /\ pc = "rendered"
  /\ OneTable
  /\ Len(adf.items[1].content) = 2
  /\ md = <<"|", " ", "H", "1", " ", "|", " ", "H", "2", " ", "|", NL,
            "|", " ", "-", "-", "-", " ", "|", " ", "-", "-", "-", " ", "|", NL,
            "|", " ", "a", " ", "|", " ", "b", " ", "|">>

\* A row object whose content is missing or is not an array.
MalformedRow(r) == IsObject(r) /\ ContentKind(r) # "array"

\* One table whose every row is either well formed or malformed in that sense.
OneMixedTable ==
  /\ IsArray(adf) /\ Len(adf.items) = 1
  /\ Has(adf.items[1], "type") /\ adf.items[1].type = "table"
  /\ ContentKind(adf.items[1]) = "array"
  /\ \A k \in 1..Len(adf.items[1].content) :
       LET r == adf.items[1].content[k]
       IN  r # Null /\ (MalformedRow(r) \/ WellFormedRow(r))

\* C11: a table row whose content is missing or is not a sequence gives no
\* output line and is not the header; the header is the first well-formed row,
\* and a table with no rows or with no well-formed row renders as "".
C11_MalformedRowsSkipped ==
  (Called /\ OneMixedTable) =>
     LET good == SelectSeq(adf.items[1].content, WellFormedRow)
         cellsOf(r) == [k \in 1..Len(r.content) |-> CellText(r.content[k])]
         out == SplitOn(md, NL)
     IN  /\ pc = "rendered"
         /\ IF Len(good) = 0 THEN md = <<>>
            ELSE /\ Len(out) = Len(good) + 1
                 /\ out[1] = RowForm(cellsOf(good[1]))
                 /\ out[2] = RowForm([k \in 1..Len(good[1].content) |-> <<"-", "-", "-">>])
                 /\ \A j \in 2..Len(good) : out[j + 1] = RowForm(cellsOf(good[j]))

C11_Witness ==
  /\ pc = "rendered"
  /\ OneMixedTable
  /\ Len(adf.items[1].content) = 3
  /\ MalformedRow(adf.items[1].content[1])
  /\ md = <<"|", " ", "H", "1", " ", "|", " ", "H", "2", " ", "|", NL,
            "|", " ", "-", "-", "-", " ", "|", " ", "-", "-", "-", " ", "|", NL,
            "|", " ", "a", " ", "|", " ", "b", " ", "|">>

(***************************************************************************)
(* Properties of getJiraFields.                                            *)
(***************************************************************************)
\* C13: for every identifier other than "basic", "navigable" and "full", and
\* when the argument is omitted, getJiraFields returns the sequence of field
\* names it returns for "navigable".
C13_UnknownIsNavigable ==
  (pc = "resolved" /\ fieldSet \notin {Str("basic"), Str("navigable"), Str("full")}) =>
     fields = getJiraFields(Str("navigable"))

(***************************************************************************)
(* Properties of convertADFToMarkdown, node by node.  mapped[k] is the     *)
(* rendering of the k-th top-level node of the tree the call was given.    *)
(***************************************************************************)
TopNodes == IF IsArray(adf) THEN adf.items ELSE adf.content

\* The types processNode has a case for
SwitchTypes ==
  { "doc", "paragraph", "text", "heading", "bulletList", "orderedList", "listItem",
    "codeBlock", "blockquote", "rule", "table", "image", "hardBreak" }

\* The renderings of the children of n, one after the other
ChildrenConcatenated(n) ==
  IF ContentKind(n) = "absent" THEN <<>>
  ELSE Join([j \in 1..Len(n.content) |-> processNode(n.content[j])], <<>>)

\* C12 as stated: a node whose type is none of the enumerated types renders as
\* the concatenation of its rendered children, with no separator and no
\* wrapping, and as "" when it has no content.
C12_AnyOtherType ==
  pc = "rendered" =>
     \A k \in 1..Len(mapped) :
        (Has(TopNodes[k], "type") /\ TopNodes[k].type \notin SwitchTypes)
          => mapped[k] = ChildrenConcatenated(TopNodes[k])

\* C12 amended: a node whose type is a non-empty string that is none of the
\* types processNode has a case for renders as the concatenation of its
\* rendered children, with no separator and no wrapping, and as "" when it has
\* no content; a node whose type is the empty string renders as "", children
\* or not.
C12_UnknownConcatenated ==
  pc = "rendered" =>
     \A k \in 1..Len(mapped) :
        (Has(TopNodes[k], "type") /\ TopNodes[k].type \notin SwitchTypes)
          => mapped[k] = IF TopNodes[k].type = "" THEN <<>>
                         ELSE ChildrenConcatenated(TopNodes[k])

C12_Witness ==
  /\ pc = "rendered"
  /\ \E k \in 1..Len(mapped) :
        /\ Has(TopNodes[k], "type") /\ TopNodes[k].type = "mention"
        /\ ContentKind(TopNodes[k]) = "array" /\ Len(TopNodes[k].content) = 2
        /\ mapped[k] = <<"x", "y">>

\* A list node whose items are objects with an array content
ListOfItems(n) ==
  /\ Has(n, "type") /\ n.type \in {"bulletList", "orderedList"}
  /\ ContentKind(n) = "array"
  /\ \A j \in 1..Len(n.content) : IsObject(n.content[j]) /\ ContentKind(n.content[j]) = "array"

\* The children of a list item joined by a newline, the lines after the first
\* indented by two spaces, behind the marker of the item
ItemNewlineJoined(item, ordered, index) ==
  LET body == Join([j \in 1..Len(item.content) |-> processNode(item.content[j])], <<NL>>)
      marker == IF ordered THEN NatToString(index) \o <<".", " ">> ELSE <<"-", " ">>
  IN  marker \o ReplaceChar(body, NL, <<NL, " ", " ">>)

\* C14: inside a bulletList or orderedList the children of a listItem are
\* joined by a newline and the lines of a nested list are indented by two
\* spaces per level; an item holding paragraph "p" and a nested bulletList
\* with item "q" renders as "- p\n  - q".
C14_ItemChildrenOnLines ==
  pc = "rendered" =>
     \A k \in 1..Len(mapped) :
        ListOfItems(TopNodes[k]) =>
           mapped[k] = Join([j \in 1..Len(TopNodes[k].content) |->
                               ItemNewlineJoined(TopNodes[k].content[j],
                                                 TopNodes[k].type = "orderedList", j)],
                            <<NL>>)

\* A blockquote with an array content
IsQuote(n) == Has(n, "type") /\ n.type = "blockquote" /\ ContentKind(n) = "array"

\* The renderings of the children of n joined by sep, every line of the result
\* behind "> "
Quoted(n, sep) ==
  LET body == Join([j \in 1..Len(n.content) |-> processNode(n.content[j])], sep)
      ls == SplitOn(body, NL)
  IN  Join([j \in 1..Len(ls) |-> <<">", " ">> \o ls[j]], <<NL>>)

\* C15 as stated: a blockquote renders as the renderings of its children
\* joined by a single newline, every line prefixed by "> "; the paragraphs "a"
\* and "b" give exactly the two lines "> a" and "> b".
C15_QuoteSingleNewline ==
  pc = "rendered" =>
     \A k \in 1..Len(mapped) :
        IsQuote(TopNodes[k]) => mapped[k] = Quoted(TopNodes[k], <<NL>>)

\* C15 amended: a blockquote renders as the renderings of its children joined
\* by a blank line ("\n\n"), every line of the result prefixed by "> ", the
\* empty line between two children included; the paragraphs "a" and "b" give
\* the three lines "> a", "> " and "> b".
C15_QuoteBlankLine ==
  pc = "rendered" =>
     \A k \in 1..Len(mapped) :
        IsQuote(TopNodes[k]) => mapped[k] = Quoted(TopNodes[k], <<NL, NL>>)

C15_Witness ==
  /\ pc = "rendered"
  /\ \E k \in 1..Len(mapped) :
        /\ IsQuote(TopNodes[k])
        /\ Len(TopNodes[k].content) = 2
        /\ mapped[k] = <<">", " ", "a", NL, ">", " ", NL, ">", " ", "b">>

\* C16 as stated: the rendering of a doc is exactly the renderings of its
\* top-level children joined by "\n\n", nothing added or removed, also when a
\* child at the first or last position renders to "" or to a newline.
C16_JoinedExactly ==
  pc = "rendered" => md = Join(mapped, <<NL, NL>>)

\* C16 amended: what convertADFToMarkdown returns for a doc is the renderings
\* of its top-level children joined by "\n\n" and then trimmed of leading and
\* trailing white space; a doc node inside the tree renders as the join of its
\* children by "\n\n", untrimmed.
C16_JoinedThenTrimmed ==
  pc = "rendered" =>
     /\ md = Trim(Join(mapped, <<NL, NL>>))
     /\ \A k \in 1..Len(mapped) :
          (Has(TopNodes[k], "type") /\ TopNodes[k].type = "doc"
             /\ ContentKind(TopNodes[k]) = "array")
            => mapped[k] = Join([j \in 1..Len(TopNodes[k].content) |->
                                   processNode(TopNodes[k].content[j])], <<NL, NL>>)

C16_Witness ==
  /\ pc = "rendered"
  /\ Len(mapped) = 3
  /\ mapped[1] = <<NL>>
  /\ mapped[3] = <<>>
  /\ md = <<"p">>

\* The lines of the text, in order, that convertToADF makes headings of
RECURSIVE HeadingLinesFrom(_)
HeadingLinesFrom(j) ==
  IF j >= Len(lines) THEN <<>>
  ELSE (IF /\ ~IsBlankLine(lines[j + 1])
           /\ ~IsBulletLine(lines[j + 1])
           /\ ~NumberedMatch(lines[j + 1]).matched
           /\ IsHeadingLine(lines, j)
        THEN <<lines[j + 1]>> ELSE <<>>) \o HeadingLinesFrom(j + 1)

IsHeadingNode(n) == Has(n, "type") /\ n.type = "heading"

\* The renderings of the headings among the top-level nodes, in order
RECURSIVE HeadingRenderingsFrom(_)
HeadingRenderingsFrom(k) ==
  IF k > Len(mapped) THEN <<>>
  ELSE (IF IsHeadingNode(TopNodes[k]) THEN <<mapped[k]>> ELSE <<>>)
         \o HeadingRenderingsFrom(k + 1)

\* C17: a heading of level L in 1..6 renders as L '#', one space, then its
\* children concatenated; a heading with no level attribute renders with one
\* '#'; so the headings of a document convertToADF returned render, in order,
\* as "## " followed by the trimmed line each was made of.
C17_HeadingHashes ==
  pc = "rendered" =>
     /\ \A k \in 1..Len(mapped) :
          IsHeadingNode(TopNodes[k]) =>
             LET n == TopNodes[k]
                 hasLevel == Has(n, "attrs") /\ Has(n.attrs, "level")
             IN  /\ (hasLevel /\ n.attrs.level \in 1..6) =>
                       mapped[k] = RepeatN("#", n.attrs.level) \o <<" ">> \o ChildrenConcatenated(n)
                 /\ ~hasLevel => mapped[k] = <<"#", " ">> \o ChildrenConcatenated(n)
     /\ (Returned /\ adf = doc) =>
          LET hs == HeadingLinesFrom(0)
          IN  HeadingRenderingsFrom(1) = [j \in 1..Len(hs) |-> <<"#", "#", " ">> \o Trim(hs[j])]

C17_Witness ==
  /\ pc = "rendered"
  /\ Len(mapped) = 1
  /\ IsHeadingNode(TopNodes[1])
  /\ Has(TopNodes[1], "attrs") /\ Has(TopNodes[1].attrs, "level") /\ TopNodes[1].attrs.level = 5
  /\ mapped[1] = <<"#", "#", "#", "#", "#", " ", "h", "k">>

(***************************************************************************)
(* Properties of calls that follow one another (SpecCalls).                *)
(***************************************************************************)
\* A call that has completed gave what the first completed call gave, if that
\* was a call of the same function on an equal argument.
SameAsFirst ==
  /\ (pc = "returned" /\ first.fn = "convertToADF" /\ first.arg = text)
       => doc = first.result
  /\ (pc \in {"rendered", "renderThrew"} /\ first.fn = "convertADFToMarkdown"
        /\ first.arg = adf)
       => [threw |-> pc = "renderThrew", md |-> md] = first.result

\* A call of convertToADF begins with no content, no open list and no list
\* type, whatever the calls before it left.
BeginsFresh ==
  (pc # "loop" /\ pc' = "loop") =>
     content' = <<>> /\ currentList' = 0 /\ currentListType' = "null"

\* A call of convertADFToMarkdown leaves the document convertToADF returned,
\* its argument or not, as it was.
TreeUntouched ==
  (pc # "loop" /\ pc' \in {"rendered", "renderThrew"}) => doc' = doc

\* C18: no call of a transform affects another call, in any order of calls:
\* the list state of convertToADF is per call, so no list of an earlier call
\* receives an item and equal inputs give equal documents, and
\* convertADFToMarkdown leaves the tree it is given unchanged.
C18_CallsIndependent ==
  /\ []SameAsFirst
  /\ [][BeginsFresh /\ TreeUntouched]_vars

\* A second call of convertToADF on "- a" has returned after a first one on
\* "- a" that left its list open.
C18_Witness ==
  /\ pc = "returned"
  /\ ncalls = 2
  /\ first.fn = "convertToADF"
  /\ first.arg = text
  /\ text = <<"-", " ", "a">>
  /\ Len(doc.content) = 1

(***************************************************************************)
(* Properties of the steps of convertToADF.                                *)
(***************************************************************************)
IsListLine(l) == ~IsBlankLine(l) /\ (IsBulletLine(l) \/ NumberedMatch(l).matched)

\* The list a list line belongs to: of bullets, or of numbers
ListTypeOf(l) == IF IsBulletLine(l) THEN "bulletList" ELSE "orderedList"

\* A step of the loop at a list line
ListStep == InLoop /\ IsListLine(Line) /\ i' = i + 1

\* The list line of the step comes after a blank line, after a list line of
\* the other type, or after a heading that is the last node so far.
AfterBreak ==
  \/ i > 0 /\ IsBlankLine(lines[i])
  \/ i > 0 /\ IsListLine(lines[i]) /\ ListTypeOf(lines[i]) # ListTypeOf(Line)
  \/ Len(content) > 0 /\ content[Len(content)].type = "heading"

\* C19: a list line that follows a blank line, a heading, or a line of the
\* other list type starts a new list node at the end of content, and no node
\* that was there before is changed.
C19_NewListAfterBreak ==
  [][(ListStep /\ AfterBreak) =>
       /\ Len(content') = Len(content) + 1
       /\ SubSeq(content', 1, Len(content)) = content
       /\ content'[Len(content')].type = ListTypeOf(Line)
       /\ Len(content'[Len(content')].content) = 1]_vars

\* A list, a heading, a blank line and a list: two lists around the heading.
C19_Witness ==
  /\ pc = "returned"
  /\ Len(lines) = 3
  /\ IsBlankLine(lines[2])
  /\ IsListLine(lines[1]) /\ IsListLine(lines[3])
  /\ ListTypeOf(lines[1]) = ListTypeOf(lines[3])
  /\ Len(doc.content) = 2

\* The trimmed line starts with "- ", or with digits, a period and a space.
ListShaped(l) ==
  LET t == Trim(l)
  IN  \/ Len(t) >= 2 /\ t[1] = "-" /\ t[2] = " "
      \/ \E d \in 1..(Len(t) - 2) :
            /\ \A k \in 1..d : t[k] \in Digits
            /\ t[d + 1] = "." /\ t[d + 2] = " "

NodesOfType(c, type) == Cardinality({k \in 1..Len(c) : c[k].type = type})

\* The number of list items in the lists of c
RECURSIVE ItemsIn(_)
ItemsIn(c) ==
  IF Len(c) = 0 THEN 0
  ELSE (IF Head(c).type \in {"bulletList", "orderedList"} THEN Len(Head(c).content) ELSE 0)
         + ItemsIn(Tail(c))

\* What a step added: list items, headings, paragraphs
Added(c, d) ==
  <<ItemsIn(d) - ItemsIn(c),
    NodesOfType(d, "heading") - NodesOfType(c, "heading"),
    NodesOfType(d, "paragraph") - NodesOfType(c, "paragraph")>>

\* C20: the classification rules are tried in a fixed order and exclude one
\* another: a step at a non-blank line adds exactly one list item, one heading
\* or one paragraph, and at a line whose trimmed form starts with "- " or with
\* digits, a period and a space it adds a list item, never a heading, also
\* when the line is short, ends in no terminator and is followed by a blank
\* line or by nothing.
C20_OneRulePerLine ==
  [][(InLoop /\ ~IsBlankLine(Line) /\ i' = i + 1) =>
       /\ Added(content, content') \in {<<1, 0, 0>>, <<0, 1, 0>>, <<0, 0, 1>>}
       /\ ListShaped(Line) => Added(content, content') = <<1, 0, 0>>]_vars

\* A numbered line alone, short and without a terminator, became a list.
C20_Witness ==
  /\ pc = "returned"
  /\ lines = << <<"1", ".", " ", "a">> >>
  /\ Len(doc.content) = 1
  /\ doc.content[1].type = "orderedList"

\* A step of the loop at a line that is not blank
LineStep == InLoop /\ ~IsBlankLine(Line) /\ i' = i + 1

\* A node of the given type, with the given further fields, holding one text
\* leaf with the text s
Holding(node, s) == [node EXCEPT !.content = <<[type |-> "text", text |-> s]>>]

\* The item last pushed to the list currentList refers to after the step
PushedItem ==
  LET list == content'[currentList']
  IN  list.content[Len(list.content)]

\* C21: the paragraph of a line that falls through to the paragraph rule holds
\* the line exactly as given, white space at its ends included; the leaf of a
\* heading is the trimmed line, and the text of a list item is the trimmed
\* line without its marker.
C21_LeafTexts ==
  [][LineStep =>
       /\ Added(content, content') = <<0, 0, 1>> =>
            content'[Len(content')] = Holding([type |-> "paragraph", content |-> <<>>], Line)
       /\ Added(content, content') = <<0, 1, 0>> =>
            content'[Len(content')]
              = Holding([type |-> "heading", attrs |-> [level |-> 2], content |-> <<>>], Trim(Line))
       /\ Added(content, content') = <<1, 0, 0>> =>
            PushedItem = ItemHolding(IF IsBulletLine(Line) THEN AfterBullet(Line)
                                     ELSE AfterNumeral(Line))]_vars

\* C22: in every document convertToADF returns every text leaf holds a
\* non-empty string and every bulletList or orderedList holds at least one
\* listItem; a marker with nothing behind it makes no list item.
C22_NoEmptyLeafOrList ==
  Returned =>
     /\ \A k \in 1..Len(LeavesOf(doc.content)) : Len(LeavesOf(doc.content)[k]) >= 1
     /\ \A k \in 1..Len(doc.content) :
          doc.content[k].type \in {"bulletList", "orderedList"}
            => Len(doc.content[k].content) >= 1


(***************************************************************************)
(* Properties of the tool-call handler.                                    *)
(***************************************************************************)
ToolNames ==
  { "jira_list_fields", "jira_list_link_types", "jira_list_issue_types",
    "jira_get_issues", "jira_update_issue", "jira_get_user", "jira_read_issue",
    "jira_create_issue", "jira_delete_issue", "jira_create_issue_link" }

\* The validation method the case of the tool calls
Validator(req) ==
  CASE req.name = "jira_list_issue_types" -> validateListIssueTypesArgs(req.arguments)
    [] req.name = "jira_get_issues" -> validateGetIssuesArgs(req.arguments)
    [] req.name = "jira_update_issue" -> validateUpdateIssueArgs(req.arguments)
    [] req.name = "jira_get_user" -> validateGetUserArgs(req.arguments)
    [] req.name = "jira_read_issue" -> validateReadIssueArgs(req.arguments)
    [] req.name = "jira_create_issue" -> validateCreateIssueArgs(req.arguments)
    [] req.name = "jira_delete_issue" -> validateDeleteIssueArgs(req.arguments)
    [] req.name = "jira_create_issue_link" -> validateCreateIssueLinkArgs(req.arguments)
    [] OTHER -> Ok

ValidationFails(req) ==
  /\ req.name \in ToolNames \ {"jira_list_fields", "jira_list_link_types"}
  /\ ArgumentsMissing(req.arguments) \/ Validator(req) # Ok

IsResponse(r) == Has(r, "content")

OperationFailed(r) ==
  /\ IsResponse(r)
  /\ Has(r, "isError") /\ r.isError
  /\ r.content[1] = "Operation failed: "

CallsRejected == {k \in 1..Len(tracker) : tracker[k].answer = "rejected"}

\* C23 as stated: the handler always ends in a response, and an unknown tool
\* name, a failed validation or a failed tracker call gives an isError
\* response whose text begins with "Operation failed: ".
C23_FailureIsOperationFailed ==
  pc = "responded" =>
    /\ IsResponse(response)
    /\ (\/ request.name \notin ToolNames
        \/ ValidationFails(request)
        \/ CallsRejected # {})
         => OperationFailed(response)

\* C23 amended: the handler always ends in a response, and an unknown tool
\* name, a failed validation or a failed tracker call other than the getProject
\* of jira_list_issue_types gives an isError response whose text begins with
\* "Operation failed: "; a failed getProject gives the response of success.
C23_FailureButGetProject ==
  pc = "responded" =>
    /\ IsResponse(response)
    /\ (\/ request.name \notin ToolNames
        \/ ValidationFails(request)
        \/ \E k \in CallsRejected : tracker[k].op # "getProject")
         => OperationFailed(response)
    /\ (\E k \in CallsRejected : tracker[k].op = "getProject")
         => response = Success("issueTypes")

C23_Witness ==
  /\ pc = "responded"
  /\ request.name = "jira_update_issue"
  /\ \E k \in CallsRejected : tracker[k].op = "transitionIssue"
  /\ OperationFailed(response)


\* The required arguments of the tools that have some
RequiredArguments(name) ==
  CASE name = "jira_create_issue" -> {"projectKey", "summary", "issueType"}
    [] name = "jira_delete_issue" -> {"issueKey"}
    [] name = "jira_update_issue" -> {"issueKey"}
    [] name = "jira_create_issue_link" -> {"inwardIssueKey", "outwardIssueKey", "linkType"}
    [] name = "jira_get_issues" -> {"projectKey"}
    [] name = "jira_read_issue" -> {"issueKey"}
    [] name = "jira_get_user" -> {"email"}
    [] OTHER -> {}

\* A required argument is missing, empty or not a string
RequiredInvalid(req) ==
  \E k \in RequiredArguments(req.name) : NotAString(Prop(req.arguments, k))

\* C24: once a request with a required argument missing, empty or not a string
\* has been received, the handler has responded with isError true and no
\* tracker operation has been or is ever invoked; a tracker operation is
\* invoked only for arguments that passed the validation.
C24_ValidationBeforeTracker ==
  /\ (pc \in {"awaiting", "responded"} /\ RequiredInvalid(request)) =>
       /\ pc = "responded"
       /\ tracker = <<>>
       /\ Has(response, "isError") /\ response.isError
  /\ tracker # <<>> => ~ValidationFails(request)

C24_Witness ==
  /\ pc = "responded"
  /\ request.name = "jira_create_issue"
  /\ Prop(request.arguments, "projectKey") = Str("x")
  /\ Prop(request.arguments, "summary") = Num
  /\ tracker = <<>>
  /\ OperationFailed(response)


\* The positions of the calls of an operation in the tracker's record
CallsOf(op) == {k \in 1..Len(tracker) : tracker[k].op = op}

\* A validated jira_update_issue request is being or has been handled
Updating ==
  /\ pc \in {"awaiting", "responded"}
  /\ request.name = "jira_update_issue"
  /\ ~ValidationFails(request)

\* The assignee was given and searchUsers resolved to a user
AssigneeResolved ==
  \E k \in CallsOf("searchUsers") :
    tracker[k].answer = "resolved" /\ SomeUser(tracker[k].result)

\* The fields the handler collected from the arguments and the user search
Collected ==
  {f \in {"summary", "description", "priority"} : Truthy(Prop(request.arguments, f))}
    \cup (IF AssigneeResolved THEN {"assignee"} ELSE {})

\* The transition, if any, has resolved before updateIssue is called
TransitionFirst ==
  \A t \in CallsOf("transitionIssue"), u \in CallsOf("updateIssue") :
    t < u /\ tracker[t].answer = "resolved"

\* updateIssue is called at most once, with what was collected, and not after
\* a transition call that failed
UpdateAtMostOnce ==
  /\ Cardinality(CallsOf("updateIssue")) <= 1
  /\ \A u \in CallsOf("updateIssue") : tracker[u].fields = Collected /\ Collected # {}
  /\ (\E t \in CallsOf("transitionIssue") : tracker[t].answer = "rejected")
       => CallsOf("updateIssue") = {}

\* The handler has responded and every call it made resolved
NoCallFailed == pc = "responded" /\ CallsRejected = {}

UpdatedSuccessfully ==
  /\ response = Success("Issue updated successfully")
  /\ CallsOf("updateIssue") # {} <=> Collected # {}

\* C25 as stated: in jira_update_issue the transition precedes the field
\* update, updateIssue is called at most once and exactly when something was
\* collected, never after a failed transition, and when no call fails the
\* response is the success message.
C25_TransitionThenUpdate ==
  Updating =>
    /\ TransitionFirst
    /\ UpdateAtMostOnce
    /\ NoCallFailed => UpdatedSuccessfully

\* The handler raises a TypeError itself: convertToADF of a description that
\* is not a string, or toLowerCase of a status that is not a string when
\* there is a transition to compare it with
RaisesTypeError ==
  LET description == Prop(request.arguments, "description")
      status == Prop(request.arguments, "status")
  IN  \/ Truthy(description) /\ NotAString(description)
      \/ /\ Truthy(status) /\ NotAString(status)
         /\ \E k \in CallsOf("listTransitions") :
              /\ tracker[k].answer = "resolved"
              /\ Len(tracker[k].result.transitions) > 0

\* C25 amended: as stated, but when no call fails the response is the success
\* message (and updateIssue called exactly when something was collected) only
\* if the handler raises no TypeError; with a description that is not a
\* string, or a status that is not a string and at least one transition
\* listed, the response is "Operation failed: ..." and updateIssue is not
\* called.
C25_TransitionThenUpdateTyped ==
  Updating =>
    /\ TransitionFirst
    /\ UpdateAtMostOnce
    /\ NoCallFailed =>
         IF RaisesTypeError
         THEN OperationFailed(response) /\ CallsOf("updateIssue") = {}
         ELSE UpdatedSuccessfully

C25_Witness ==
  /\ Updating /\ NoCallFailed
  /\ CallsOf("transitionIssue") # {}
  /\ CallsOf("updateIssue") # {}
  /\ AssigneeResolved
  /\ UpdatedSuccessfully

\* A status that matched no transition and an assignee that matched no user
\* still end in the success message
C25_WitnessNoMatch ==
  /\ Updating /\ NoCallFailed
  /\ CallsOf("listTransitions") # {} /\ CallsOf("transitionIssue") = {}
  /\ CallsOf("searchUsers") # {} /\ ~AssigneeResolved
  /\ ~RaisesTypeError
  /\ UpdatedSuccessfully

====
